---- MODULE Spec2Model ----
(***************************************************************************)
(* A model of pygwb's numerical core: the correlated-noise Simulator       *)
(* (src/pygwb/simulator.py) and the window/bias helpers (src/pygwb/util.py)*)
(*                                                                         *)
(* Conventions.                                                            *)
(*  - Real numbers are exact rationals <<num, den>> in lowest terms with   *)
(*    den > 0.  Spectral densities are counted in units of 1e-45, the      *)
(*    value simulator.py:227 floors zeros to.                              *)
(*  - Arrays are sequences.  A Python index k is position k+1; the index   *)
(*    numbers stored inside terms and records are the Python ones.         *)
(*  - A numpy operation that raises is the record Raise(kind).             *)
(***************************************************************************)
EXTENDS Integers, Sequences, FiniteSets, TLC

(***************************************************************************)
(* Bounds of the model.                                                    *)
(***************************************************************************)
MaxNd == 3
MaxSegments == 2
MaxDuration == 3
MaxSamplingFrequency == 2
MaxOrfExtra == 2

(***************************************************************************)
(* Exact rational arithmetic.                                              *)
(***************************************************************************)
Abs(a) == IF a < 0 THEN -a ELSE a

Min(a, b) == IF a <= b THEN a ELSE b

Max(a, b) == IF a >= b THEN a ELSE b

RECURSIVE GCD(_, _)
GCD(a, b) == IF b = 0 THEN a ELSE GCD(b, a % b)

R(n, d) ==
    LET s == IF d < 0 THEN -1 ELSE 1
        g == GCD(Abs(n), Abs(d))
    IN  <<(s * n) \div g, (s * d) \div g>>

RInt(n) == <<n, 1>>

RZero == <<0, 1>>

RAdd(a, b) == R(a[1] * b[2] + b[1] * a[2], a[2] * b[2])

RSub(a, b) == R(a[1] * b[2] - b[1] * a[2], a[2] * b[2])

RMul(a, b) == R(a[1] * b[1], a[2] * b[2])

\* a / b for b # 0
RDiv(a, b) == R(a[1] * b[2], a[2] * b[1])

RLt(a, b) == a[1] * b[2] < b[1] * a[2]

RLeq(a, b) == a[1] * b[2] <= b[1] * a[2]

(***************************************************************************)
(* numpy shapes: one-dimensional broadcasting and slicing.                 *)
(***************************************************************************)
Raise(kind) == [raised |-> TRUE, kind |-> kind]

Ok(v) == [raised |-> FALSE, val |-> v]

\* an array whose elements have been computed (a sequence)
Array(f) == f \o <<>>

\* Python s[a:b] for 0 <= a
Slice(s, a, b) ==
    LET hi == Min(b, Len(s))
    IN  IF a >= hi THEN <<>> ELSE SubSeq(s, a + 1, hi)

\* shapes (a,) and (b,) broadcast together iff they agree or one of them is 1
Broadcastable(a, b) == a = b \/ a = 1 \/ b = 1

BroadcastLen(a, b) == IF a = 1 THEN b ELSE a

\* element k (position) of a length-n operand seen at the broadcast length
BAt(s, k) == IF Len(s) = 1 THEN s[1] ELSE s[k]

\* elementwise binary operation op on two 1-d arrays, as numpy applies it
Elementwise(op(_, _), a, b) ==
    IF ~Broadcastable(Len(a), Len(b))
    THEN Raise("ValueError")
    ELSE Ok(Array([k \in 1..BroadcastLen(Len(a), Len(b)) |-> op(BAt(a, k), BAt(b, k))]))

\* target[...] = value for a target slice of length n: value must have
\* length n or broadcast to it from length 1
AssignSlice(n, value) ==
    IF Len(value) = n THEN Ok(value)
    ELSE IF Len(value) = 1 THEN Ok(Array([k \in 1..n |-> value[1]]))
    ELSE Raise("ValueError")

\* target[...] = rhs where computing rhs may already have raised
AssignResult(n, rhs) == IF rhs.raised THEN rhs ELSE AssignSlice(n, rhs.val)

(***************************************************************************)
(* State.                                                                  *)
(*   args   what the caller passes to Simulator(...)                       *)
(*   ifos   the caller's interferometer objects (list shared with self)    *)
(*   self   the Simulator's fields set so far (a function on field names)  *)
(*   pc     the last stage completed: "new" (not constructed yet),         *)
(*          "constructed", "simulated", "spliced"                          *)
(*   exc    "" or the name of the exception the stage after pc raised      *)
(*   C      the tensor covariance_matrix() returned to simulate_data       *)
(*   y      simulate_data's result, y[detector][segment][sample]           *)
(*   data   splice_segments' result, data[detector][sample]                *)
(*   ndraws number of generate_freq_domain_data() calls made               *)
(*   call   the last call made to a function of util.py, with its result   *)
(*   main   the run of the script pyGWB_Pipeline.py: where it is, what it  *)
(*          has computed and what it has printed                           *)
(*   obj    the object the calls of detector.py, parameters.py and         *)
(*          workflow.py act on, with the outcome of the last call          *)
(***************************************************************************)
VARIABLES args, ifos, self, pc, exc, C, y, data, ndraws, call, main, obj

vars == <<args, ifos, self, pc, exc, C, y, data, ndraws, call, main, obj>>

(***************************************************************************)
(* Inputs.  Spectra are given on the frequency grid by a kind (a small     *)
(* family of shapes) so that detectors and bins carry different values.    *)
(***************************************************************************)
\* "inf": the second detector's PSD holds an infinite value; "missing": the
\* first detector has no power_spectral_density
NoiseKinds == {"zero", "flat", "varied", "inf", "missing"}

GWKinds == {"zero", "flat", "varied"}

OrfKinds == {"zero", "one", "varied"}

\* ifo.power_spectral_density.psd_array of detector i (position) at bin f
NoisePSDValue(kind, i, f) ==
    CASE kind = "zero" -> RZero
      [] kind = "flat" -> RInt(3)
      [] OTHER -> R(1 + ((i + f) % 3), 2)

\* the GW strain power interpolated at bin f
GWValue(kind, f) ==
    CASE kind = "zero" -> RZero
      [] kind = "flat" -> RInt(2)
      [] OTHER -> RInt(f % 3)

\* baseline b's overlap reduction function at raw index r
OrfValue(kind, b, r) ==
    CASE kind = "zero" -> RZero
      [] kind = "one" -> RInt(1)
      [] OTHER -> R(((b + r) % 5) - 2, 2)

\* int(x) of a non-negative rational
IntOf(x) == x[1] \div x[2]

\* np.round of n/2 (round half to even), n a natural number
RoundHalf(n) ==
    IF n % 2 = 0 THEN n \div 2
    ELSE LET k == (n - 1) \div 2 IN IF k % 2 = 0 THEN k ELSE k + 1

\* len(create_frequency_series(sampling_frequency, duration))
NumFrequencies(sampling_frequency, duration) ==
    RoundHalf(sampling_frequency * duration) + 1

\* len(get_baselines(interferometers)): one baseline per detector pair
NumBaselines(Nd) == (Nd * (Nd - 1)) \div 2

\* Simulator.__init__, line 56
TooFewInterferometersMutant(n) == n < 1

TooFewInterferometers(n) == n < 2

\* np.isinf(psd).any() for detector i (position)
PsdHasInf(kind, i) == kind = "inf" /\ i = 2

\* ifo.power_spectral_density.psd_array cannot be read for detector i
PsdMissing(kind, i) == kind = "missing" /\ i = 1

\* lines 101-112: what the body of the try raises, "" if it returns; the
\* detectors are visited in order
RECURSIVE RaisedInTry(_, _, _)
RaisedInTry(Nd, kind, i) ==
    IF i > Nd THEN ""
    ELSE IF PsdMissing(kind, i) THEN "AttributeError"
    ELSE IF PsdHasInf(kind, i) THEN "ValueError"
    ELSE RaisedInTry(Nd, kind, i + 1)

\* lines 113-116: the bare except turns whatever the body raised, the
\* ValueError of line 107 included, into the AttributeError of line 114
NoisePSDRaises(Nd, kind) == IF RaisedInTry(Nd, kind, 1) = "" THEN "" ELSE "AttributeError"

\* Simulator.get_noise_PSD_array when it returns
get_noise_PSD_array(Nd, Nf, kind) ==
    Array([i \in 1..Nd |-> Array([f \in 1..Nf |-> NoisePSDValue(kind, i, f)])])

\* the baselines' overlap reduction functions, each of length Nf + extra
RawOrfs(Nd, Nf, kind, extra) ==
    Array([b \in 1..NumBaselines(Nd) |->
            Array([r \in 1..(Nf + extra) |-> OrfValue(kind, b, r)])])

\* Simulator.get_orf: an ORF whose length differs from the grid loses its
\* first element
get_orf(raw, Nf) ==
    Array([b \in 1..Len(raw) |->
            IF Len(raw[b]) # Nf THEN Slice(raw[b], 1, Len(raw[b])) ELSE raw[b]])

\* interpolate_frequency_series(intensity_GW, self.frequencies).value
interpolate_frequency_series(kind, Nf) == Array([f \in 1..Nf |-> GWValue(kind, f)])

\* the fields __init__ has set when it reaches line 77
FieldsBeforeNoNoise(a) ==
    LET Nf == NumFrequencies(a.sampling_frequency, a.duration)
    IN  [ Nd |-> a.nIfo,
          sampling_frequency |-> a.sampling_frequency,
          duration |-> a.duration,
          N_segments |-> a.N_segments,
          Nf |-> Nf,
          N_samples_per_segment |-> IntOf(RInt(a.sampling_frequency * a.duration)),
          deltaT |-> R(1, a.sampling_frequency),
          noise_PSD_array |-> get_noise_PSD_array(a.nIfo, Nf, a.noiseKind) ]

\* the fields __init__ has set when line 76 calls get_noise_PSD_array
FieldsBeforeNoisePSD(a) ==
    [k \in (DOMAIN FieldsBeforeNoNoise(a)) \ {"noise_PSD_array"} |-> FieldsBeforeNoNoise(a)[k]]

\* the fields set by lines 80-89
FieldsAfterNoNoise(a) ==
    LET Nf == NumFrequencies(a.sampling_frequency, a.duration)
    IN  [ orf |-> get_orf(RawOrfs(a.nIfo, Nf, a.orfKind, a.orfExtra), Nf),
          intensity_GW |-> interpolate_frequency_series(a.gwKind, Nf) ]

NoFields == [x \in {} |-> 0]

FreshIfo == [sampling_frequency |-> 0, duration |-> 0]

\* Simulator.__init__
Construct ==
    /\ pc = "new"
    /\ exc = ""
    /\ IF TooFewInterferometers(args.nIfo)
       THEN /\ exc' = "ValueError"
            /\ UNCHANGED <<pc, self, ifos>>
       ELSE /\ ifos' = [i \in 1..args.nIfo |->
                          [sampling_frequency |-> args.sampling_frequency,
                           duration |-> args.duration]]
            /\ IF NoisePSDRaises(args.nIfo, args.noiseKind) # ""
               THEN /\ exc' = NoisePSDRaises(args.nIfo, args.noiseKind)
                    /\ self' = FieldsBeforeNoisePSD(args)
                    /\ UNCHANGED pc
               ELSE IF args.no_noise
               THEN /\ exc' = "NameError"
                    /\ self' = FieldsBeforeNoNoise(args)
                    /\ UNCHANGED pc
               ELSE /\ pc' = "constructed"
                    /\ self' = FieldsBeforeNoNoise(args) @@ FieldsAfterNoNoise(args)
                    /\ UNCHANGED exc
    /\ UNCHANGED <<args, C, y, data, ndraws, call, main, obj>>

(***************************************************************************)
(* The covariance tensor.                                                  *)
(***************************************************************************)
\* the integer 0 of np.zeros((Nd, Nd), dtype=object): a scalar, which
\* broadcasts like a one-element array
ScalarZero == <<RZero>>

\* Simulator.orf_to_array, lines 195-198: the loop over ii in range(Nd),
\* jj in range(ii), consuming self.orf[index] in order (Python indices)
RECURSIVE FillLower(_, _, _, _, _, _)
FillLower(arr, orf, Nd, ii, jj, index) ==
    IF ii >= Nd THEN arr
    ELSE IF jj >= ii THEN FillLower(arr, orf, Nd, ii + 1, 0, index)
    ELSE FillLower([arr EXCEPT ![ii + 1][jj + 1] = orf[index + 1]],
                   orf, Nd, ii, jj + 1, index + 1)

\* line 199: orf_array + orf_array.transpose()
PlusTransposeMutant(Nd, lower) == lower

PlusTranspose(Nd, lower) ==
    Array([i \in 1..Nd |-> Array([j \in 1..Nd |->
        Elementwise(RAdd, lower[i][j], lower[j][i]).val])])

\* np.zeros((Nd, Nd), dtype=...)
ZeroMatrix(Nd) == Array([i \in 1..Nd |-> Array([j \in 1..Nd |-> ScalarZero])])

\* Simulator.orf_to_array
orf_to_array(Nd, orf) == PlusTranspose(Nd, FillLower(ZeroMatrix(Nd), orf, Nd, 0, 0, 0))

\* the value simulator.py:227 writes over exact zeros, in units of 1e-45
FloorValue == RInt(1)

\* C[C == 0.0] = 1.0e-45
FloorZeroMutant(v) == v

FloorZero(v) == IF v = RZero THEN FloorValue ELSE v

\* N_samples_per_segment / (deltaT * 4)
ScaleFactorMutant(s) == RDiv(RInt(s.N_samples_per_segment), RInt(4))

ScaleFactor(s) == RDiv(RInt(s.N_samples_per_segment), RMul(s.deltaT, RInt(4)))

\* the right-hand sides of lines 224 and 226 (Python ii, jj are i-1, j-1)
CovarianceEntry(s, orf_array, i, j) ==
    IF i = j
    THEN Elementwise(RAdd, s.noise_PSD_array[i], s.intensity_GW)
    ELSE Elementwise(RMul, orf_array[i][j], s.intensity_GW)

\* lines 221-226: what each C[ii, jj, :] = ... assigns, or the ValueError
\* numpy raises when the right-hand side does not fit the Nf bins
CovarianceRows(s, orf_array) ==
    Array([i \in 1..s.Nd |-> Array([j \in 1..s.Nd |->
        AssignResult(s.Nf, CovarianceEntry(s, orf_array, i, j))])])

\* lines 227-228 applied to one C[ii, jj, :]
FloorAndScale(scale, row) ==
    Array([f \in 1..Len(row) |-> RMul(scale, FloorZero(row[f]))])

CovarianceOfRows(s, rows) ==
    IF \E i, j \in 1..s.Nd : rows[i][j].raised
    THEN Raise("ValueError")
    ELSE Ok(Array([i \in 1..s.Nd |-> Array([j \in 1..s.Nd |->
                FloorAndScale(ScaleFactor(s), rows[i][j].val)])]))

\* Simulator.covariance_matrix: Ok(C) with C[i][j][f], or the exception
covariance_matrix(s) == CovarianceOfRows(s, CovarianceRows(s, orf_to_array(s.Nd, s.orf)))

(***************************************************************************)
(* simulate_data.  Random draws are kept symbolic: draw number d stands    *)
(* for the (Nf x Nd) complex array z that generate_freq_domain_data()      *)
(* returned on its d-th call.  Every simulated quantity is a linear        *)
(* function of the draws; the model records which draws it is a function   *)
(* of and whether that function is the zero function ("live" = it is not). *)
(***************************************************************************)
\* Simulator.transform_to_correlated_data: xtemp[f][i] = sum_j z[f][j]*A[f][j][i]
\* with A = sqrt(eigval) . eigvec^T.  Column i of A[f] has squared norm
\* sum_j eigval_j * eigvec[i][j]^2 = C[i][i][f], so xtemp[f][i] is the zero
\* function of z exactly when C[i][i][f] = 0.
Live(Cov, f, i) == Cov[i][i][f] # RZero

transform_to_correlated_data(d, Cov, Nd, Nf) ==
    Array([f \in 1..Nf |-> Array([i \in 1..Nd |->
        [draw |-> d, bin |-> f - 1, det |-> i - 1, live |-> Live(Cov, f, i)]])])

SpectrumZero == [kind |-> "zero"]

Flipud(s) == Array([k \in 1..Len(s) |-> s[Len(s) + 1 - k]])

\* xtemp[:, ii] and its conjugate for detector i (position)
Column(xtemp, i, kind) == Array([f \in 1..Len(xtemp) |-> [kind |-> kind, e |-> xtemp[f][i]]])

\* lines 328-344: the two-sided spectrum of detector i (position)
xtildeMutant(xtemp, i, N) ==
    IF N % 2 = 0
    THEN <<SpectrumZero>> \o Column(xtemp, i, "x") \o <<SpectrumZero>>
            \o Column(xtemp, i, "conj")
    ELSE <<SpectrumZero>> \o Column(xtemp, i, "x") \o Column(xtemp, i, "conj")

xtilde(xtemp, i, N) ==
    IF N % 2 = 0
    THEN <<SpectrumZero>> \o Column(xtemp, i, "x") \o <<SpectrumZero>>
            \o Flipud(Column(xtemp, i, "conj"))
    ELSE <<SpectrumZero>> \o Column(xtemp, i, "x") \o Flipud(Column(xtemp, i, "conj"))

IfftSamples(M, draws, dets, live) ==
    Array([n \in 1..M |-> [n |-> n - 1, draws |-> draws, dets |-> dets, live |-> live]])

FilledBins(X) == {k \in 1..Len(X) : X[k].kind # "zero"}

\* np.real(np.fft.ifft(X)): sample n is (1/M) sum_k Re(X[k] e^{2 pi i k n/M}).
\* A bin holding x or conj(x) contributes Re(x) cos(t) -+ Im(x) sin(t), and
\* cos(t), sin(t) are never both 0, so the sample is a live function of the
\* draw as soon as one bin holds a live spectrum value.
real_ifft(X) ==
    IfftSamples(Len(X),
                {X[k].e.draw : k \in FilledBins(X)},
                {X[k].e.det : k \in FilledBins(X)},
                \E k \in FilledBins(X) : X[k].e.live)

\* lines 327-347 for detector i (position): the row assigned to y[ii, kk, :]
SegmentOfSpectrum(xtemp, s, i) ==
    AssignSlice(s.N_samples_per_segment,
                Slice(real_ifft(xtilde(xtemp, i, s.N_samples_per_segment)),
                      0, s.N_samples_per_segment))

\* lines 323-347: one pass of the loop over kk, all detectors from one draw
SegmentsOfDraw(xtemp, s) == Array([i \in 1..s.Nd |-> SegmentOfSpectrum(xtemp, s, i)])

NumRawSegments(s) == 2 * s.N_segments + 1

\* lines 322-347: seg[kk][ii], draw number first + kk for Python kk = kk - 1
AllSegmentsMutant(first, Cov, s) ==
    Array([kk \in 1..NumRawSegments(s) |->
        SegmentsOfDraw(transform_to_correlated_data(first + 1, Cov, s.Nd, s.Nf), s)])

AllSegments(first, Cov, s) ==
    Array([kk \in 1..NumRawSegments(s) |->
        SegmentsOfDraw(transform_to_correlated_data(first + kk, Cov, s.Nd, s.Nf), s)])

\* Simulator.simulate_data
SimulateData ==
    /\ pc = "constructed"
    /\ exc = ""
    /\ \E cov \in {covariance_matrix(self)} :
         IF cov.raised
         THEN /\ exc' = cov.kind
              /\ UNCHANGED <<pc, C, y, ndraws>>
         ELSE \E seg \in {AllSegments(ndraws, cov.val, self)} :
                IF \E kk \in 1..NumRawSegments(self), i \in 1..self.Nd : seg[kk][i].raised
                THEN /\ exc' = "ValueError"
                     /\ UNCHANGED <<pc, C, y, ndraws>>
                ELSE /\ pc' = "simulated"
                     /\ C' = cov.val
                     /\ y' = [i \in 1..self.Nd |->
                                [kk \in 1..NumRawSegments(self) |-> seg[kk][i].val]]
                     /\ ndraws' = ndraws + NumRawSegments(self)
                     /\ UNCHANGED exc
    /\ UNCHANGED <<args, ifos, self, data, call, main, obj>>

(***************************************************************************)
(* splice_segments.  A spliced sample is a sum of products w[k]*sample;    *)
(* it is kept as the sequence of its terms, in the order they are added.   *)
(* w[k] = sin(pi*k/N) is kept as its index k.                              *)
(***************************************************************************)
\* lines 370-373: w[ii] = sin(pi * ii / N), as the index ii
HalfSineWindow(N) == Array([k \in 1..N |-> k - 1])

\* one product w[k] * segments[ii][seg][n]
Product(i, seg, wk, v) == <<[w |-> wk, det |-> i - 1, seg |-> seg, n |-> v.n]>>

\* w * segments[ii][seg][:] for detector i (position) and Python index seg
Windowed(w, segments, i, seg) ==
    LET prod(wk, v) == Product(i, seg, wk, v)
    IN  Elementwise(prod, w, segments[i][seg + 1])

\* np.zeros(n) as sums with no term
ZeroTerms(n) == Array([k \in 1..n |-> <<>>])

AddTerms(a, b) == a \o b

\* int(N / 2)
Half(N) == N \div 2

\* z0 + z1 + z2, left to right
AddThree(z0, z1, z2) ==
    IF ~Broadcastable(Len(z0), Len(z1)) THEN Raise("ValueError")
    ELSE Elementwise(AddTerms, Elementwise(AddTerms, z0, z1).val, z2)

\* lines 385-410 once y0, y1, y2 are there
SpliceWindowedMutant(N, y0, y1, y2) ==
    AssignResult(N, AddThree(Slice(y0, 0, Half(N)) \o ZeroTerms(Half(N)),
                             y1,
                             ZeroTerms(Half(N)) \o Slice(y2, Half(N), N)))

SpliceWindowed(N, y0, y1, y2) ==
    AssignResult(N, AddThree(Slice(y0, Half(N), N) \o ZeroTerms(Half(N)),
                             y1,
                             ZeroTerms(Half(N)) \o Slice(y2, 0, Half(N))))

\* lines 381-410: the chunk written for detector i (position) and Python jj
SpliceChunk(w, segments, N, i, jj) ==
    IF \/ Windowed(w, segments, i, 2 * jj).raised
       \/ Windowed(w, segments, i, 2 * jj + 1).raised
       \/ Windowed(w, segments, i, 2 * jj + 2).raised
    THEN Raise("ValueError")
    ELSE SpliceWindowed(N, Windowed(w, segments, i, 2 * jj).val,
                           Windowed(w, segments, i, 2 * jj + 1).val,
                           Windowed(w, segments, i, 2 * jj + 2).val)

\* a sample of np.zeros((Nd, N * N_segments)) nothing has been written to
Unwritten == [written |-> FALSE, terms |-> <<>>]

Written(chunk) == Array([k \in 1..Len(chunk) |-> [written |-> TRUE, terms |-> chunk[k]]])

\* the row of data after the chunks of Python jj = 0 .. n-1 have been written
RECURSIVE SplicedRow(_, _)
SplicedRow(chunks, n) ==
    IF n = 0 THEN <<>> ELSE SplicedRow(chunks, n - 1) \o Written(chunks[n].val)

\* lines 379-410: chunks[ii][jj]
AllChunks(segments, s) ==
    Array([i \in 1..s.Nd |-> Array([j \in 1..s.N_segments |->
        SpliceChunk(HalfSineWindow(s.N_samples_per_segment), segments,
                    s.N_samples_per_segment, i, j - 1)])])

\* Simulator.splice_segments
SpliceSegments ==
    /\ pc = "simulated"
    /\ exc = ""
    /\ \E chunks \in {AllChunks(y, self)} :
         IF \E i \in 1..self.Nd, j \in 1..self.N_segments : chunks[i][j].raised
         THEN /\ exc' = "ValueError"
              /\ UNCHANGED <<pc, data>>
         ELSE /\ pc' = "spliced"
              /\ data' = [i \in 1..self.Nd |-> SplicedRow(chunks[i], self.N_segments)]
              /\ UNCHANGED exc
    /\ UNCHANGED <<args, ifos, self, C, y, ndraws, call, main, obj>>

(***************************************************************************)
(* The simulator's life: construction, simulate_data, splice_segments      *)
(* (generate_data calls the last two in this order).                       *)
(***************************************************************************)
ArgsSet ==
    [ nIfo : 0..MaxNd,
      N_segments : 1..MaxSegments,
      duration : 1..MaxDuration,
      sampling_frequency : 1..MaxSamplingFrequency,
      no_noise : BOOLEAN,
      noiseKind : NoiseKinds,
      gwKind : GWKinds,
      orfKind : OrfKinds,
      orfExtra : 0..MaxOrfExtra ]

NoCall == [fn |-> "none"]

NotRun == [at |-> "none"]

NoObject == [cls |-> "none"]

Init ==
    /\ args \in ArgsSet
    /\ ifos = [i \in 1..args.nIfo |-> FreshIfo]
    /\ self = NoFields
    /\ pc = "new"
    /\ exc = ""
    /\ C = <<>>
    /\ y = <<>>
    /\ data = <<>>
    /\ ndraws = 0
    /\ call = NoCall
    /\ main = NotRun
    /\ obj = NoObject

Next ==
    \/ Construct
    \/ SimulateData
    \/ SpliceSegments

Spec == Init /\ [][Next]_vars

(***************************************************************************)
(* Properties of the simulator.                                            *)
(***************************************************************************)
\* C1: constructing a Simulator with fewer than two interferometers raises
\* ValueError before anything else happens: the constructor never completes,
\* no field of the Simulator is set, and no interferometer's
\* sampling_frequency or duration is modified.
C1_TooFewInterferometersFailFirst ==
    args.nIfo < 2 =>
        /\ pc = "new"
        /\ exc \in {"", "ValueError"}
        /\ self = NoFields
        /\ \A i \in 1..args.nIfo : ifos[i] = FreshIfo

C1_Witness == args.nIfo = 1 /\ pc = "new" /\ exc = "ValueError"

\* C2: for every Nd >= 2, N_segments >= 1 and segment length N >= 2, even or
\* odd, splice_segments completes and returns Nd rows of N_segments*N
\* samples, each of them written by the overlap-add.
C2_SpliceCompletesForEveryLength ==
    (pc \in {"simulated", "spliced"} /\ self.N_samples_per_segment >= 2) =>
        /\ exc = ""
        /\ pc = "spliced" =>
            /\ Len(data) = self.Nd
            /\ \A i \in 1..self.Nd :
                /\ Len(data[i]) = self.N_segments * self.N_samples_per_segment
                /\ \A p \in 1..Len(data[i]) : data[i][p].written

\* the sum written at Python offset k of chunk j for detector i (Python
\* indices), N even and h = N/2: w[k+h]*seg[i][2j][k+h] + w[k]*seg[i][2j+1][k]
\* for k < h, w[k]*seg[i][2j+1][k] + w[k-h]*seg[i][2j+2][k-h] for k >= h
ExpectedTerms(i, j, k, h) ==
    IF k < h
    THEN << [w |-> k + h, det |-> i, seg |-> 2 * j, n |-> k + h],
            [w |-> k, det |-> i, seg |-> 2 * j + 1, n |-> k] >>
    ELSE << [w |-> k, det |-> i, seg |-> 2 * j + 1, n |-> k],
            [w |-> k - h, det |-> i, seg |-> 2 * j + 2, n |-> k - h] >>

\* C3: for even N the spliced sample [i][j*N + k] is the overlap-add of the
\* half-sine-windowed raw segments 2j, 2j+1, 2j+2 given by ExpectedTerms;
\* every raw-segment index read lies in [0, 2*N_segments].
C3_OverlapAddFormula ==
    (pc = "spliced" /\ self.N_samples_per_segment % 2 = 0) =>
        LET N == self.N_samples_per_segment
        IN  \A i \in 0..(self.Nd - 1), j \in 0..(self.N_segments - 1), k \in 0..(N - 1) :
                /\ data[i + 1][j * N + k + 1].terms = ExpectedTerms(i, j, k, N \div 2)
                /\ \A t \in 1..Len(data[i + 1][j * N + k + 1].terms) :
                       data[i + 1][j * N + k + 1].terms[t].seg \in 0..(2 * self.N_segments)

C3_Witness ==
    /\ pc = "spliced"
    /\ self.N_samples_per_segment = 4
    /\ self.N_segments = 2
    /\ data[2][7].terms = << [w |-> 2, det |-> 1, seg |-> 3, n |-> 2],
                             [w |-> 0, det |-> 1, seg |-> 4, n |-> 0] >>

\* the ORF of the detector pair (i, j), i # j (positions): element number
\* hi*(hi-1)/2 + lo of the packed list, hi > lo the pair's Python indices
PairOrf(i, j) ==
    LET hi == Max(i, j) - 1
        lo == Min(i, j) - 1
    IN  self.orf[((hi * (hi - 1)) \div 2) + lo + 1]

\* the covariance before flooring and scaling
BaseCovariance(i, j, f) ==
    IF i = j
    THEN RAdd(self.noise_PSD_array[i][f], self.intensity_GW[f])
    ELSE RMul(PairOrf(i, j)[f], self.intensity_GW[f])

\* N_samples_per_segment / (4 * deltaT), with deltaT = 1 / sampling_frequency
ExpectedScale == R(self.N_samples_per_segment * self.sampling_frequency, 4)

CovarianceReturned == pc \in {"simulated", "spliced"}

\* C4: covariance_matrix returns scale * base(i, j, f) with base = noise + GW
\* power on the diagonal and ORF * GW power off it, an exactly zero base being
\* replaced by 1e-45 before scaling; no entry of the tensor is zero.
C4_CovarianceFormula ==
    CovarianceReturned =>
        \A i, j \in 1..self.Nd, f \in 1..self.Nf :
            /\ C[i][j][f] = RMul(ExpectedScale,
                                 IF BaseCovariance(i, j, f) = RZero
                                 THEN RInt(1) ELSE BaseCovariance(i, j, f))
            /\ C[i][j][f] # RZero

C4_Witness ==
    /\ pc = "simulated"
    /\ self.Nd = 3
    /\ self.Nf >= 2
    /\ BaseCovariance(1, 1, 1) # RZero
    /\ BaseCovariance(2, 1, 1) = RZero
    /\ BaseCovariance(3, 2, 1) # RZero
    /\ C[1][2][1] = ExpectedScale
    /\ C[2][3][1] = RMul(ExpectedScale, BaseCovariance(3, 2, 1))

\* C5 as stated: the tensor is symmetric and every diagonal entry is at
\* least the noise-only PSD value noise_psd[i][f].
C5_DiagonalAtLeastNoise ==
    CovarianceReturned =>
        \A i, j \in 1..self.Nd, f \in 1..self.Nf :
            /\ C[i][j][f] = C[j][i][f]
            /\ RLeq(self.noise_PSD_array[i][f], C[i][i][f])

\* C5 as amended: the tensor is symmetric and every diagonal entry is at
\* least scale * noise_psd[i][f], scale = N_samples_per_segment / (4*deltaT).
C5_SymmetricDiagonalAtLeastScaledNoise ==
    CovarianceReturned =>
        \A i, j \in 1..self.Nd, f \in 1..self.Nf :
            /\ C[i][j][f] = C[j][i][f]
            /\ RLeq(RMul(ExpectedScale, self.noise_PSD_array[i][f]), C[i][i][f])

C5_Witness ==
    /\ pc = "simulated"
    /\ self.Nd = 3
    /\ RLt(ExpectedScale, RInt(1))
    /\ args.noiseKind = "flat"
    /\ args.gwKind = "flat"
    /\ args.orfKind = "varied"
    /\ C[3][1][1] = C[1][3][1]
    /\ C[3][1][1] # C[3][2][1]
    /\ RLt(C[1][1][1], self.noise_PSD_array[1][1])

DegenerateDiagonalCase ==
    /\ self.Nd = 2
    /\ args.orfKind = "zero"
    /\ args.gwKind = "zero"
    /\ args.noiseKind = "flat"

\* C6 as stated: with Nd = 2, ORF = 0, GW power = 0 and a flat non-zero noise
\* PSD the tensor is diagonal: off-diagonal entries 0, diagonal entries equal
\* to the noise PSD.
C6_DiagonalTensor ==
    (CovarianceReturned /\ DegenerateDiagonalCase) =>
        \A f \in 1..self.Nf :
            /\ C[1][2][f] = RZero
            /\ C[2][1][f] = RZero
            /\ C[1][1][f] = self.noise_PSD_array[1][f]
            /\ C[2][2][f] = self.noise_PSD_array[2][f]

\* C6 as amended: in that case both off-diagonal entries equal scale * 1e-45
\* (the floored zero) and both diagonal entries equal scale * noise PSD.
C6_FlooredScaledTensor ==
    (CovarianceReturned /\ DegenerateDiagonalCase) =>
        \A f \in 1..self.Nf :
            /\ C[1][2][f] = ExpectedScale
            /\ C[2][1][f] = ExpectedScale
            /\ C[1][1][f] = RMul(ExpectedScale, self.noise_PSD_array[1][f])
            /\ C[2][2][f] = RMul(ExpectedScale, self.noise_PSD_array[2][f])

C6_Witness ==
    /\ pc = "simulated"
    /\ DegenerateDiagonalCase
    /\ self.sampling_frequency = 2
    /\ self.N_samples_per_segment = 6
    /\ C[1][2][1] = RInt(3)
    /\ C[1][1][1] = RInt(9)

\* sin(pi * k / N) # 0 for 0 <= k < N
WindowNonZero(k, N) == k % N # 0

SegmentSample(t) == y[t.det + 1][t.seg + 1][t.n + 1]

\* the spliced sample is a non-zero linear function of the draws: one of its
\* terms has a non-zero window weight on a live raw sample, and no other term
\* is a function of the same draw (so nothing can cancel it)
SampleLive(i, p) ==
    LET terms == data[i][p].terms
    IN  \E t \in 1..Len(terms) :
            /\ WindowNonZero(terms[t].w, self.N_samples_per_segment)
            /\ SegmentSample(terms[t]).live
            /\ \A u \in 1..Len(terms) :
                   u # t => SegmentSample(terms[u]).draws \cap SegmentSample(terms[t]).draws = {}

ZeroInputs == args.gwKind = "zero" /\ args.noiseKind = "zero"

\* C7 as stated: with zero GW power and zero noise PSD at every bin, every
\* sample of the spliced output is exactly zero for every random draw (no
\* sample is a non-zero function of the draw).
C7_ZeroInputsGiveZeroOutput ==
    (pc = "spliced" /\ ZeroInputs) =>
        \A i \in 1..self.Nd : \A p \in 1..Len(data[i]) : ~SampleLive(i, p)

\* C7 as amended: with zero GW power and zero noise PSD every diagonal entry
\* of the tensor is the floored, scaled value scale * 1e-45, and every sample
\* of the spliced output is a non-zero linear function of the random draw.
C7_ZeroInputsGiveFlooredOutput ==
    (pc = "spliced" /\ ZeroInputs) =>
        /\ \A i \in 1..self.Nd, f \in 1..self.Nf : C[i][i][f] = ExpectedScale
        /\ \A i \in 1..self.Nd : \A p \in 1..Len(data[i]) : SampleLive(i, p)

C7_Witness ==
    /\ pc = "spliced"
    /\ ZeroInputs
    /\ args.orfKind = "zero"
    /\ self.Nd = 2
    /\ self.N_samples_per_segment = 4
    /\ SampleLive(2, 1)
    /\ ~WindowNonZero(data[2][1].terms[2].w, 4)

(***************************************************************************)
(* util.py: window factors and the Welch bias factor.                      *)
(*                                                                         *)
(* A numpy float64 is Num(r) for a rational r, NaN, or Inf(sign): dividing *)
(* float64 values by zero does not raise, it yields nan or +-inf.          *)
(***************************************************************************)
MaxSegmentDuration == 3
MaxRate == 2
MaxDeltaFDenominator == 4
MaxAvgSegs == 4
MaxWindowLength == 7
MaxCalls == 2

Num(r) == [k |-> "num", v |-> r]

NaN == [k |-> "nan"]

Inf(sign) == [k |-> "inf", sign |-> sign]

IsNum(x) == x.k = "num"

\* a + b, a - b, a * b of float64 values that are numbers or nan
FloatOp(op(_, _), a, b) == IF IsNum(a) /\ IsNum(b) THEN Num(op(a.v, b.v)) ELSE NaN

\* a / b of float64 values that are numbers or nan
FloatDiv(a, b) ==
    IF ~(IsNum(a) /\ IsNum(b)) THEN NaN
    ELSE IF b.v # RZero THEN Num(RDiv(a.v, b.v))
    ELSE IF a.v = RZero THEN NaN
    ELSE Inf(IF RLt(a.v, RZero) THEN -1 ELSE 1)

RECURSIVE SumSeq(_)
SumSeq(s) == IF Len(s) = 0 THEN RZero ELSE RAdd(s[1], SumSeq(Tail(s)))

Square(a) == RMul(a, a)

\* cos(2*pi*n/D) where it is rational: D in {1, 2, 3, 4, 6}
CosTurns(n, D) ==
    LET m == n % D
    IN  CASE D = 1 -> RInt(1)
          [] D = 2 -> IF m = 0 THEN RInt(1) ELSE RInt(-1)
          [] D = 3 -> IF m = 0 THEN RInt(1) ELSE R(-1, 2)
          [] D = 4 -> IF m = 0 THEN RInt(1) ELSE IF m = 2 THEN RInt(-1) ELSE RZero
          [] D = 6 -> IF m = 0 THEN RInt(1)
                      ELSE IF m = 3 THEN RInt(-1)
                      ELSE IF m \in {1, 5} THEN R(1, 2) ELSE R(-1, 2)

\* the lengths at which the symmetric Hann window has rational samples
HannExact(N) == N = 1 \/ (N - 1) \in {1, 2, 3, 4, 6}

Windows == {"hann", "boxcar", "bartlett"}

\* scipy.signal.get_window((name,), N, fftbins=False): the symmetric window
get_window(name, N) ==
    IF N = 1 THEN <<RInt(1)>>
    ELSE Array([k \in 1..N |->
            CASE name = "boxcar" -> RInt(1)
              [] name = "bartlett" ->
                    IF 2 * (k - 1) <= N - 1
                    THEN R(2 * (k - 1), N - 1)
                    ELSE RSub(RInt(2), R(2 * (k - 1), N - 1))
              [] name = "hann" ->
                    RSub(R(1, 2), RMul(R(1, 2), CosTurns(k - 1, N - 1)))])

\* d.pop(key)
Pop(d, key) == [x \in (DOMAIN d) \ {key} |-> d[x]]

\* The caller's dictionary after get_window_tuple has run.  Line 33 makes
\* window_dict a deep copy, so the pop of line 35 empties the copy only.
CallerDictAfterMutant(window_fftgram_dict) == Pop(window_fftgram_dict, "window_fftgram")

CallerDictAfter(window_fftgram_dict) == window_fftgram_dict

\* get_window_tuple for a dictionary with no key besides "window_fftgram"
\* (the loop of lines 36-40 then adds nothing)
get_window_tuple(window_fftgram_dict) ==
    IF "window_fftgram" \in DOMAIN window_fftgram_dict
    THEN Ok(<<window_fftgram_dict.window_fftgram>>)
    ELSE Raise("KeyError")

Power(w, p) == Array([k \in 1..Len(w) |-> IF p = 2 THEN Square(w[k]) ELSE Square(Square(w[k]))])

\* np.mean of a non-empty array
Mean(w) == RDiv(SumSeq(w), RInt(Len(w)))

\* 1 / (N / 2.0) * np.sum(a * b)
OverlapStatisticMutant(N, a, b) ==
    IF Elementwise(RMul, a, b).raised
    THEN Raise("ValueError")
    ELSE Ok(SumSeq(Elementwise(RMul, a, b).val))

OverlapStatistic(N, a, b) ==
    IF Elementwise(RMul, a, b).raised
    THEN Raise("ValueError")
    ELSE Ok(RMul(RDiv(RInt(1), R(N, 2)), SumSeq(Elementwise(RMul, a, b).val)))

\* lines 20-29 once the window w is there
FactorsOfWindow(N, w, w1, w2) ==
    IF OverlapStatistic(N, Power(w1, 2), Power(w2, 2)).raised \/ OverlapStatistic(N, w1, w2).raised
    THEN Raise("ValueError")
    ELSE Ok([w1w2bar |-> Num(Mean(Power(w, 2))),
             w1w2squaredbar |-> Num(Mean(Power(w, 4))),
             w1w2ovlbar |-> Num(OverlapStatistic(N, w1, w2).val),
             w1w2squaredovlbar |-> Num(OverlapStatistic(N, Power(w1, 2), Power(w2, 2)).val)])

WindowHalves(N, w) == FactorsOfWindow(N, w, Slice(w, Half(N), N), Slice(w, 0, Half(N)))

\* window_factors(N, window_fftgram_dict)
window_factors(N, window_fftgram_dict) ==
    IF get_window_tuple(window_fftgram_dict).raised
    THEN get_window_tuple(window_fftgram_dict)
    ELSE WindowHalves(N, get_window(get_window_tuple(window_fftgram_dict).val[1], N))

Rho1OfFactors(f) ==
    IF f.raised THEN f
    ELSE Ok(FloatOp(RMul, FloatDiv(FloatOp(RMul, Num(R(1, 2)), f.val.w1w2ovlbar), f.val.w1w2bar),
                          FloatDiv(FloatOp(RMul, Num(R(1, 2)), f.val.w1w2ovlbar), f.val.w1w2bar)))

\* calc_rho1(N, window_fftgram_dict)
calc_rho1(N, window_fftgram_dict) == Rho1OfFactors(window_factors(N, window_fftgram_dict))

\* line 81: Nsegs = 2 * segmentDuration * deltaF - 1
NsegsOf(a) == RSub(RMul(RInt(2), RMul(a.segmentDuration, a.deltaF)), RInt(1))

\* lines 82-83: Neff = N_avg_segs * (1 + 2 * rho1) ** (-1) * Nsegs
NeffOf(a, rho1) ==
    FloatOp(RMul,
            FloatOp(RMul, Num(RInt(a.N_avg_segs)),
                    FloatDiv(Num(RInt(1)), FloatOp(RAdd, Num(RInt(1)), FloatOp(RMul, Num(RInt(2)), rho1)))),
            Num(NsegsOf(a)))

\* line 84: bias = Neff / (Neff - 1)
BiasOfNeff(Neff) == FloatDiv(Neff, FloatOp(RSub, Neff, Num(RInt(1))))

BiasOfRho1(a, rho1) == IF rho1.raised THEN rho1 ELSE Ok(BiasOfNeff(NeffOf(a, rho1.val)))

\* line 79: N = int(segmentDuration / deltaT)
WindowLengthOf(a) == IntOf(RDiv(a.segmentDuration, a.deltaT))

\* calc_bias(segmentDuration, deltaF, deltaT, N_avg_segs, window_fftgram_dict)
calc_bias(a) == BiasOfRho1(a, calc_rho1(WindowLengthOf(a), a.window_fftgram_dict))

WindowDicts == {[window_fftgram |-> name] : name \in Windows}

\* the window lengths and dictionaries the model evaluates exactly
Evaluable(N, d) == N >= 1 /\ (d.window_fftgram = "hann" => HannExact(N))

BiasArgs ==
    [ segmentDuration : {RInt(n) : n \in 1..MaxSegmentDuration},
      deltaF : {R(1, q) : q \in 1..MaxDeltaFDenominator},
      deltaT : {R(1, r) : r \in 1..MaxRate},
      N_avg_segs : 1..MaxAvgSegs,
      window_fftgram_dict : WindowDicts ]

\* by_default: the call names no dictionary and the function uses the one
\* dictionary object its default argument was bound to at definition
DefaultDict == [window_fftgram |-> "hann"]

WindowArgs ==
    {a \in [N : 1..MaxWindowLength, window_fftgram_dict : WindowDicts, by_default : BOOLEAN] :
        /\ Evaluable(a.N, a.window_fftgram_dict)
        /\ a.by_default => a.window_fftgram_dict = DefaultDict}

EvaluableBiasArgs == {a \in BiasArgs : Evaluable(WindowLengthOf(a), a.window_fftgram_dict)}

\* a segments array of shape (Nd, nseg, N) whose samples are all different
RawSegments(Nd, nseg, N) ==
    Array([i \in 1..Nd |-> Array([kk \in 1..nseg |->
        IfftSamples(N, {kk}, {i - 1}, TRUE)])])

SpliceArgs ==
    {[Nd |-> Nd, N_segments |-> ns, N_samples_per_segment |-> N,
      segments |-> RawSegments(Nd, 2 * ns + 1, N)] :
        Nd \in 2..MaxNd, ns \in 1..MaxSegments, N \in 1..(MaxDuration * MaxSamplingFrequency)}

\* The argument lists a caller may hold before the first call.  passed is
\* the object the calls receive by reference, in its current state: the
\* window dictionary, or the segments array.
Pending ==
    {[fn |-> "none", of |-> "window", args |-> a,
      passed |-> a.window_fftgram_dict, calls |-> 0] : a \in WindowArgs}
    \cup {[fn |-> "none", of |-> "bias", args |-> a,
           passed |-> a.window_fftgram_dict, calls |-> 0] : a \in EvaluableBiasArgs}
    \cup {[fn |-> "none", of |-> "splice", args |-> a,
           passed |-> a.segments, calls |-> 0] : a \in SpliceArgs}

MayCall(of) == call.of = of /\ call.calls < MaxCalls

\* the call record after fn has returned result and left the passed object
\* in the state after
AfterCall(fn, result, after) ==
    [fn |-> fn, of |-> call.of, args |-> call.args, result |-> result,
     passed |-> after, calls |-> call.calls + 1]

CallGetWindowTuple ==
    /\ MayCall("window")
    /\ call' = AfterCall("get_window_tuple", get_window_tuple(call.passed),
                         CallerDictAfter(call.passed))
    /\ UNCHANGED <<args, ifos, self, pc, exc, C, y, data, ndraws, main, obj>>

CallWindowFactors ==
    /\ MayCall("window")
    /\ call' = AfterCall("window_factors", window_factors(call.args.N, call.passed),
                         CallerDictAfter(call.passed))
    /\ UNCHANGED <<args, ifos, self, pc, exc, C, y, data, ndraws, main, obj>>

CallCalcRho1 ==
    /\ MayCall("window")
    /\ call' = AfterCall("calc_rho1", calc_rho1(call.args.N, call.passed),
                         CallerDictAfter(call.passed))
    /\ UNCHANGED <<args, ifos, self, pc, exc, C, y, data, ndraws, main, obj>>

CallCalcBias ==
    /\ MayCall("bias")
    /\ call' = AfterCall("calc_bias",
                         calc_bias([call.args EXCEPT !.window_fftgram_dict = call.passed]),
                         CallerDictAfter(call.passed))
    /\ UNCHANGED <<args, ifos, self, pc, exc, C, y, data, ndraws, main, obj>>

\* splice_segments(segments) as a function of its argument: the products
\* w * segments[ii][k][:] of lines 381-383 are new arrays and data is
\* allocated at line 375, so no statement writes into segments
SplicedData(chunks, s) ==
    IF \E i \in 1..s.Nd, j \in 1..s.N_segments : chunks[i][j].raised
    THEN Raise("ValueError")
    ELSE Ok(Array([i \in 1..s.Nd |-> SplicedRow(chunks[i], s.N_segments)]))

splice_segments(segments, s) == SplicedData(AllChunks(segments, s), s)

CallSpliceSegments ==
    /\ MayCall("splice")
    /\ call' = AfterCall("splice_segments", splice_segments(call.passed, call.args),
                         call.passed)
    /\ UNCHANGED <<args, ifos, self, pc, exc, C, y, data, ndraws, main, obj>>

NoArgs == [nIfo |-> 0]

InitUtil ==
    /\ args = NoArgs
    /\ ifos = <<>>
    /\ self = NoFields
    /\ pc = "new"
    /\ exc = ""
    /\ C = <<>>
    /\ y = <<>>
    /\ data = <<>>
    /\ ndraws = 0
    /\ call \in Pending
    /\ main = NotRun
    /\ obj = NoObject

NextUtil ==
    \/ CallGetWindowTuple
    \/ CallWindowFactors
    \/ CallCalcRho1
    \/ CallCalcBias
    \/ CallSpliceSegments

SpecUtil == InitUtil /\ [][NextUtil]_vars

(***************************************************************************)
(* Properties of the functions of util.py.                                 *)
(***************************************************************************)
Returned(fn) == call.fn = fn /\ ~call.result.raised

\* x > 1 for a float64 x (a comparison with nan is False)
GreaterThanOne(x) ==
    \/ IsNum(x) /\ RLt(RInt(1), x.v)
    \/ x.k = "inf" /\ x.sign = 1

\* a < b for float64 values (a comparison with nan is False)
FloatLess(a, b) ==
    \/ IsNum(a) /\ IsNum(b) /\ RLt(a.v, b.v)
    \/ IsNum(a) /\ b.k = "inf" /\ b.sign = 1
    \/ a.k = "inf" /\ a.sign = -1 /\ (IsNum(b) \/ (b.k = "inf" /\ b.sign = 1))

\* N_effective of a calc_bias call whose rho1 was computed
CallNeff == NeffOf(call.args, calc_rho1(WindowLengthOf(call.args), call.args.window_fftgram_dict).val)

\* C8: calc_bias fails whenever N_effective = N_avg_segs * wfactor * Nsegs is
\* at most 1, and what it returns is never infinite, NaN, zero or negative.
C8_BiasFailsWhenNeffAtMostOne ==
    call.fn = "calc_bias" =>
        /\ (/\ ~calc_rho1(WindowLengthOf(call.args), call.args.window_fftgram_dict).raised
            /\ IsNum(CallNeff)
            /\ RLeq(CallNeff.v, RInt(1))) => call.result.raised
        /\ ~call.result.raised =>
              IsNum(call.result.val) /\ RLt(RZero, call.result.val.v)

\* C9: over the values of N_avg_segs for which calc_bias returns, the bias is
\* strictly decreasing in N_avg_segs and every returned value is above 1.
C9_BiasStrictlyDecreasing ==
    Returned("calc_bias") =>
        /\ GreaterThanOne(call.result.val)
        /\ \A n \in 1..MaxAvgSegs :
              (n > call.args.N_avg_segs /\ ~calc_bias([call.args EXCEPT !.N_avg_segs = n]).raised)
                  => FloatLess(calc_bias([call.args EXCEPT !.N_avg_segs = n]).val, call.result.val)

\* the overlap statistic of the halves w[h:2h] and w[0:h], h = floor(N/2)
TruncatedOverlap(N, w, p) ==
    RMul(RDiv(RInt(1), R(N, 2)),
         SumSeq([k \in 1..Half(N) |-> RMul(Power(w, p)[Half(N) + k], Power(w, p)[k])]))

\* C10: window_factors accepts every odd N >= 3 and computes the two overlap
\* statistics from the two halves truncated to floor(N/2) samples.
C10_OddLengthTruncatesHalves ==
    (call.fn = "window_factors" /\ call.args.N >= 3 /\ call.args.N % 2 = 1) =>
        /\ ~call.result.raised
        /\ call.result.val.w1w2ovlbar
              = Num(TruncatedOverlap(call.args.N,
                       get_window(call.args.window_fftgram_dict.window_fftgram, call.args.N), 1))
        /\ call.result.val.w1w2squaredovlbar
              = Num(TruncatedOverlap(call.args.N,
                       get_window(call.args.window_fftgram_dict.window_fftgram, call.args.N), 2))

\* the four values a window_factors call returned
Factors == call.result.val

EvenLengthFactorsCall ==
    call.fn = "window_factors" /\ call.args.N >= 2 /\ call.args.N % 2 = 0

\* every sample of the window of the call is zero
WindowAllZero ==
    \A k \in 1..call.args.N :
        get_window(call.args.window_fftgram_dict.window_fftgram, call.args.N)[k] = RZero

SimulateReturned == pc \in {"simulated", "spliced"}

AssembledSpectrum(kk, i) ==
    xtilde(transform_to_correlated_data(kk, C, self.Nd, self.Nf), i, self.N_samples_per_segment)

\* a = conj(b) for two bins of an assembled spectrum
IsConjugateOf(a, b) ==
    \/ a.kind = "zero" /\ b.kind = "zero"
    \/ a.kind = "conj" /\ b.kind = "x" /\ a.e = b.e
    \/ a.kind = "x" /\ b.kind = "conj" /\ a.e = b.e

Hermitian(X) ==
    /\ X[1] = SpectrumZero
    /\ \A k \in 1..(Len(X) - 1) : IsConjugateOf(X[Len(X) - k + 1], X[k + 1])

\* C13: for even and odd N_samples_per_segment the two-sided spectrum X of
\* length M assembled for each detector has X[0] = 0 and X[M-k] = conj(X[k])
\* for 1 <= k < M; for even N the middle bin X[M/2] is 0 as well.
C13_SpectrumHermitian ==
    SimulateReturned =>
        \A kk \in 1..NumRawSegments(self), i \in 1..self.Nd :
            /\ Hermitian(AssembledSpectrum(kk, i))
            /\ self.N_samples_per_segment % 2 = 0 =>
                  /\ Len(AssembledSpectrum(kk, i)) % 2 = 0
                  /\ AssembledSpectrum(kk, i)[(Len(AssembledSpectrum(kk, i)) \div 2) + 1] = SpectrumZero

C13_Witness ==
    /\ pc = "simulated"
    /\ self.N_samples_per_segment = 4
    /\ self.Nf = 3
    /\ Len(AssembledSpectrum(2, 1)) = 8
    /\ AssembledSpectrum(2, 1)[5] = SpectrumZero
    /\ AssembledSpectrum(2, 1)[2].kind = "x"
    /\ AssembledSpectrum(2, 1)[2].e.bin = 0
    /\ AssembledSpectrum(2, 1)[8].kind = "conj"
    /\ AssembledSpectrum(2, 1)[8].e.bin = 0

(***************************************************************************)
(* pyGWB_Pipeline.py, lines 168-169: the notch mask.  The two statements   *)
(* are applied to arrays Y_fs and var_fs of shape (time segments,          *)
(* frequencies) and a set of flagged bin indices (Python indices).         *)
(* In the script they stand after the sys.exit() of line 156 (see the run  *)
(* of the script below); here they are applied as written.                 *)
(***************************************************************************)
MaxTimeSegments == 2
MaxFrequencies == 3

SpectrumKinds == {"ramp", "flat"}

\* a (rows x nf) array of float64: distinct values, or the same everywhere
Spectrogram(rows, nf, kind, offset) ==
    Array([r \in 1..rows |-> Array([f \in 1..nf |->
        IF kind = "ramp" THEN Num(R(offset + (r - 1) * nf + f, 2)) ELSE Num(RInt(offset))])])

\* arr[0, indices] = value: the first time segment only
AssignColumnsMutant(arr, indices, value) ==
    Array([r \in 1..Len(arr) |-> Array([f \in 1..Len(arr[r]) |->
        IF r = 1 /\ (f - 1) \in indices THEN value ELSE arr[r][f]])])

\* arr[:, indices] = value
AssignColumns(arr, indices, value) ==
    Array([r \in 1..Len(arr) |-> Array([f \in 1..Len(arr[r]) |->
        IF (f - 1) \in indices THEN value ELSE arr[r][f]])])

\* lines 168-169: Y_fs[:, indices_notches] = 0; var_fs[:, indices_notches] = np.Inf
MaskNotches(Y_fs, var_fs, indices_notches) ==
    [Y_fs |-> AssignColumns(Y_fs, indices_notches, Num(RZero)),
     var_fs |-> AssignColumns(var_fs, indices_notches, Inf(1))]

MaskArgs ==
    UNION {{[Y_fs |-> Spectrogram(rows, nf, kind, 0),
             var_fs |-> Spectrogram(rows, nf, kind, 1),
             indices_notches |-> idx] : idx \in SUBSET (0..(nf - 1)), kind \in SpectrumKinds}
           : rows \in 1..MaxTimeSegments, nf \in 1..MaxFrequencies}

ApplyNotchMask ==
    /\ call.fn = "none"
    /\ call.of = "mask"
    /\ call' = [fn |-> "mask", args |-> call.args,
                result |-> MaskNotches(call.args.Y_fs, call.args.var_fs,
                                       call.args.indices_notches)]
    /\ UNCHANGED <<args, ifos, self, pc, exc, C, y, data, ndraws, main, obj>>

InitMask ==
    /\ args = NoArgs
    /\ ifos = <<>>
    /\ self = NoFields
    /\ pc = "new"
    /\ exc = ""
    /\ C = <<>>
    /\ y = <<>>
    /\ data = <<>>
    /\ ndraws = 0
    /\ call \in {[fn |-> "none", of |-> "mask", args |-> a] : a \in MaskArgs}
    /\ main = NotRun
    /\ obj = NoObject

NextMask == ApplyNotchMask

SpecMask == InitMask /\ [][NextMask]_vars

\* C14: for any set of flagged bin indices the masking step sets Y_fs to
\* exactly 0 and var_fs to exactly +infinity at every flagged index in every
\* time-segment row, and leaves both arrays unchanged at every other index.
C14_MaskSetsFlaggedBinsOnly ==
    call.fn = "mask" =>
        /\ Len(call.result.Y_fs) = Len(call.args.Y_fs)
        /\ Len(call.result.var_fs) = Len(call.args.var_fs)
        /\ \A r \in 1..Len(call.args.Y_fs) :
              /\ Len(call.result.Y_fs[r]) = Len(call.args.Y_fs[r])
              /\ Len(call.result.var_fs[r]) = Len(call.args.var_fs[r])
              /\ \A f \in 1..Len(call.args.Y_fs[r]) :
                    IF (f - 1) \in call.args.indices_notches
                    THEN /\ call.result.Y_fs[r][f] = Num(RZero)
                         /\ call.result.var_fs[r][f] = Inf(1)
                    ELSE /\ call.result.Y_fs[r][f] = call.args.Y_fs[r][f]
                         /\ call.result.var_fs[r][f] = call.args.var_fs[r][f]

C14_Witness ==
    /\ call.fn = "mask"
    /\ Len(call.args.Y_fs) = 2
    /\ Len(call.args.Y_fs[2]) = 3
    /\ call.args.indices_notches = {0, 2}
    /\ call.args.Y_fs[2][3] = Num(R(6, 2))
    /\ call.result.Y_fs[2][3] = Num(RZero)
    /\ call.result.var_fs[2][1] = Inf(1)
    /\ call.result.Y_fs[2][2] = Num(R(5, 2))
    /\ call.result.var_fs[2][2] = Num(R(6, 2))

(***************************************************************************)
(* pyGWB_Pipeline.py: the run of the main script, statement group by       *)
(* statement group.  main.at is the last group completed.  The statements  *)
(* after the sys.exit() of line 156 (lines 158-205: estimate, notch mask,  *)
(* post-processing, save) are never reached and so are no step of the run. *)
(***************************************************************************)
MaxNotches == 2

\* what the run is given: the parameter file, the data and the notch list
RunInputs ==
    [ Boolean_CSD : BOOLEAN,
      resolution_matches : BOOLEAN,
      notches : 0..MaxNotches ]

StartOfRun(in) ==
    [ at |-> "start",
      Boolean_CSD |-> in.Boolean_CSD,
      resolution_matches |-> in.resolution_matches,
      notches |-> in.notches,
      lines_2 |-> 0,
      badGPStimes |-> {},
      printed |-> <<>>,
      saved |-> "nothing",
      exc |-> "" ]

\* print(text)
Message(text) == [text |-> text, value |-> {}]

Running(at) == main.at = at /\ main.exc = ""

Simulator_unchanged == UNCHANGED <<args, ifos, self, pc, exc, C, y, data, ndraws, call, obj>>

\* lines 49-68
LoadParameters ==
    /\ Running("start")
    /\ main' = [main EXCEPT !.at = "parameters",
                            !.printed = @ \o <<Message("imported parameters"), Message("saved final param file")>>]
    /\ Simulator_unchanged

\* lines 74-92
SetSpectra ==
    /\ Running("parameters")
    /\ main' = [main EXCEPT !.at = "spectra",
                            !.printed = @ \o <<Message("loaded interferometers"),
                                                Message("baseline initialised"),
                                                Message("setting PSD and CSD"),
                                                Message("done")>>]
    /\ Simulator_unchanged

\* lines 94-100: the assert raises AssertionError, which the handler for
\* ValueError does not catch
CheckResolution ==
    /\ Running("spectra")
    /\ IF main.resolution_matches
       THEN main' = [main EXCEPT !.at = "resolution"]
       ELSE main' = [main EXCEPT !.exc = "AssertionError"]
    /\ Simulator_unchanged

\* lines 102-127
CropSpectra ==
    /\ Running("resolution")
    /\ main' = [main EXCEPT !.at = "cropped"]
    /\ Simulator_unchanged

\* lines 130-140
LoadNotches ==
    /\ Running("cropped")
    /\ main' = [main EXCEPT !.at = "notches", !.lines_2 = main.notches]
    /\ Simulator_unchanged

\* lines 142-154: run_dsc returns the GPS times it cuts, which are printed
RunDsc ==
    /\ Running("notches")
    /\ \E bad \in SUBSET (1..MaxTimeSegments) :
         main' = [main EXCEPT !.at = "dsc", !.badGPStimes = bad,
                              !.printed = @ \o <<[text |-> "badGPStimes", value |-> bad]>>]
    /\ Simulator_unchanged

\* line 156: sys.exit()
Exit ==
    /\ Running("dsc")
    /\ main' = [main EXCEPT !.exc = "SystemExit"]
    /\ Simulator_unchanged

InitPipeline ==
    /\ args = NoArgs
    /\ ifos = <<>>
    /\ self = NoFields
    /\ pc = "new"
    /\ exc = ""
    /\ C = <<>>
    /\ y = <<>>
    /\ data = <<>>
    /\ ndraws = 0
    /\ call = NoCall
    /\ main \in {StartOfRun(in) : in \in RunInputs}
    /\ obj = NoObject

NextPipeline ==
    \/ LoadParameters
    \/ SetSpectra
    \/ CheckResolution
    \/ CropSpectra
    \/ LoadNotches
    \/ RunDsc
    \/ Exit

\* the interpreter keeps executing the script while a statement is left
SpecPipeline == InitPipeline /\ [][NextPipeline]_vars /\ WF_vars(NextPipeline)

\* C15: every run that completes the delta-sigma cut with Boolean_CSD set
\* goes on to compute (Y_f, var_f), mask, post-process and save the point
\* estimate.
C15_DscLeadsToSavedEstimate ==
    (main.at = "dsc" /\ main.Boolean_CSD) ~> (main.saved = "point_estimate")

\* an overlap reduction function handed to the Simulator is longer than the
\* frequency grid
OrfLengthMismatch == args.nIfo >= 2 /\ ~args.no_noise /\ args.orfExtra > 0

\* C16: when an input's length differs from the frequency grid the simulator
\* signals a failure before any covariance is computed, and never drops or
\* broadcasts elements of the mismatched input and continues.
C16_MismatchSignalledNotAdjusted ==
    OrfLengthMismatch =>
        /\ pc \notin {"simulated", "spliced"}
        /\ pc = "constructed" =>
              \A b \in 1..Len(self.orf) : Len(self.orf[b]) = self.Nf + args.orfExtra

\* what the caller passed to the first call
PassedAtFirst ==
    IF call.of = "splice" THEN call.args.segments ELSE call.args.window_fftgram_dict

\* what fn returns for the arguments of the first call
FreshResult ==
    CASE call.fn = "get_window_tuple" -> get_window_tuple(call.args.window_fftgram_dict)
      [] call.fn = "window_factors" -> window_factors(call.args.N, call.args.window_fftgram_dict)
      [] call.fn = "calc_rho1" -> calc_rho1(call.args.N, call.args.window_fftgram_dict)
      [] call.fn = "calc_bias" -> calc_bias(call.args)
      [] call.fn = "splice_segments" -> splice_segments(call.args.segments, call.args)

\* C17: after any sequence of calls to window_factors, get_window_tuple,
\* calc_rho1 and calc_bias the window dictionary (the shared default one
\* included) is as the caller passed it, and so is the segments array after
\* splice_segments; a repeated call returns what the first call returned.
C17_CallsLeaveArgumentsUnchanged ==
    call.fn # "none" =>
        /\ call.passed = PassedAtFirst
        /\ call.result = FreshResult

C17_Witness ==
    /\ call.fn = "window_factors"
    /\ call.calls = 2
    /\ call.args.by_default
    /\ call.args.N = 4
    /\ call.passed = DefaultDict
    /\ ~call.result.raised
    /\ call.result.val.w1w2bar = Num(R(9, 32))

\* the array orf_to_array built inside covariance_matrix
OrfArray == orf_to_array(self.Nd, self.orf)

\* the packed element number of the pair (i, j), j < i (Python indices)
PackedIndex(i, j) == ((i * (i - 1)) \div 2) + j

\* C18: orf_to_array puts packed element number i*(i-1)/2 + j at [i][j] and
\* at [j][i] for every 0 <= j < i < Nd, puts 0 on the diagonal, and consumes
\* exactly the Nd*(Nd-1)/2 elements of the packed list.
C18_PackedOrfExpanded ==
    CovarianceReturned =>
        /\ Len(self.orf) = (self.Nd * (self.Nd - 1)) \div 2
        /\ {PackedIndex(p[1], p[2]) :
                p \in {q \in (0..(self.Nd - 1)) \X (0..(self.Nd - 1)) : q[2] < q[1]}}
              = 0..(Len(self.orf) - 1)
        /\ \A i \in 0..(self.Nd - 1) :
              /\ OrfArray[i + 1][i + 1] = ScalarZero
              /\ \A j \in 0..(i - 1) :
                    /\ OrfArray[i + 1][j + 1] = self.orf[PackedIndex(i, j) + 1]
                    /\ OrfArray[j + 1][i + 1] = self.orf[PackedIndex(i, j) + 1]

C18_Witness ==
    /\ pc = "simulated"
    /\ self.Nd = 3
    /\ args.orfKind = "varied"
    /\ self.orf[1] # self.orf[2]
    /\ self.orf[2] # self.orf[3]
    /\ self.orf[1] # self.orf[3]
    /\ OrfArray[3][2] = self.orf[3]
    /\ OrfArray[1][3] = self.orf[2]
    /\ OrfArray[2][1] = self.orf[1]

\* C19: for Nd = 2, non-negative noise PSDs and GW power and |orf| <= 1,
\* every per-frequency matrix of the returned tensor is positive
\* semidefinite: C00 >= 0, C11 >= 0 and C00*C11 >= C01*C10.
C19_TwoDetectorMatrixPositiveSemidefinite ==
    (CovarianceReturned /\ self.Nd = 2) =>
        \A f \in 1..self.Nf :
            /\ RLeq(RZero, C[1][1][f])
            /\ RLeq(RZero, C[2][2][f])
            /\ RLeq(RMul(C[1][2][f], C[2][1][f]), RMul(C[1][1][f], C[2][2][f]))

ConstructorRan == pc # "new" \/ exc # ""

\* C20: constructing a Simulator with no_noise = True and at least two
\* interferometers succeeds and leaves noise_PSD_array with the shape of the
\* detectors' noise PSDs (Nd x Nf) and every entry 0.
C20_NoNoiseGivesZeroNoisePSD ==
    (args.no_noise /\ args.nIfo >= 2 /\ ConstructorRan) =>
        /\ exc # "NameError"
        /\ pc # "new"
        /\ self.noise_PSD_array
              = [i \in 1..args.nIfo |->
                    [f \in 1..NumFrequencies(args.sampling_frequency, args.duration) |-> RZero]]

ResolutionWarning == Message("Frequency resolution in PSD/CSD is different than requested.")

CheckedResolution == main.at \notin {"start", "parameters", "spectra"} \/ main.exc # ""

\* C21: a frequency-resolution mismatch never aborts the run of the main
\* script: the warning is printed and execution continues to the
\* frequency-band cut.
C21_ResolutionMismatchOnlyWarns ==
    (main.at # "none" /\ ~main.resolution_matches /\ CheckedResolution) =>
        /\ main.exc # "AssertionError"
        /\ \E k \in 1..Len(main.printed) : main.printed[k] = ResolutionWarning

\* C22: get_noise_PSD_array raises ValueError (naming the interferometer)
\* when a detector's noise PSD contains an infinite value, and raises the
\* AttributeError "needs to be specified" only when a noise PSD is missing.
C22_InfiniteNoisePSDRaisesValueError ==
    (args.nIfo >= 2 /\ ConstructorRan) =>
        /\ args.noiseKind = "inf" => exc = "ValueError"
        /\ exc = "AttributeError" => args.noiseKind = "missing"

(***************************************************************************)
(* detector.py: the Interferometer class.  obj is one interferometer: the  *)
(* detector file it is loaded from, the instance attributes it has been    *)
(* given so far (a function whose domain is the set of attributes that     *)
(* exist), what it has printed, and the exception of the last call.        *)
(***************************************************************************)
MaxMethodCalls == 4
MaxResolution == 2
MaxAverage == 2

Error(type, message) == [type |-> type, message |-> message]

NoError == Error("", "")

\* the values of the "shape" line of a detector file; "" is a file without
\* that line
Shapes == {"", "L", "l", "LIGO", "Ligo", "triangular", "Triangle", "V", "circular"}

\* str.lower on the values of Shapes
Lower(shape) ==
    CASE shape = "L" -> "l"
      [] shape \in {"LIGO", "Ligo"} -> "ligo"
      [] shape = "Triangle" -> "triangle"
      [] OTHER -> shape

DetectorFiles ==
    {[exists |-> FALSE, shape |-> "", name_matches |-> TRUE]}
        \cup {[exists |-> TRUE, shape |-> s, name_matches |-> m] : s \in Shapes, m \in BOOLEAN}

\* the exception classes "except OSError" catches: IOError is the same
\* class as OSError, FileNotFoundError a subclass of it
OSErrors == {"OSError", "IOError", "FileNotFoundError"}

\* what the body of the try statement raises (NoError: it returns)
RaisedInLoad(file) ==
    IF ~file.exists THEN Error("FileNotFoundError", "No such file or directory")
    ELSE IF file.shape = "" THEN
        IF file.name_matches THEN NoError ELSE Error("AssertionError", "ifo name does not match")
    ELSE IF Lower(file.shape) \in {"l", "ligo"} THEN
        IF file.name_matches THEN NoError ELSE Error("AssertionError", "ifo name does not match")
    ELSE IF Lower(file.shape) \in {"triangular", "triangle"} THEN
        Error("ValueError", "Triangular detectros are not implemented yet.")
    ELSE Error("IOError", "could not be loaded. Invalid parameter 'shape'.")

\* what get_empty_interferometer raises to its caller
RaisedByLoad(file) ==
    IF RaisedInLoad(file).type \in OSErrors
    THEN Error("ValueError", "Interferometer not implemented")
    ELSE RaisedInLoad(file)

NoAttributes == <<>>

NewInterferometer(file) ==
    [cls |-> "Interferometer", file |-> file, attrs |-> NoAttributes, printed |-> <<>>,
     exc |-> NoError, last |-> [fn |-> "get_empty_interferometer"], calls |-> 0]

\* Interferometer.get_empty_interferometer(name)
GetEmptyInterferometer ==
    /\ obj.cls = "pending"
    /\ obj' = IF RaisedByLoad(obj.file) = NoError
              THEN NewInterferometer(obj.file)
              ELSE [cls |-> "failed", file |-> obj.file, exc |-> RaisedByLoad(obj.file)]
    /\ UNCHANGED <<args, ifos, self, pc, exc, C, y, data, ndraws, call, main>>

Has(o, attribute) == attribute \in DOMAIN o.attrs

\* o after a call of method fn that set the attributes of the function set,
\* printed the messages of printed and raised raised
AfterMethod(o, fn, set, printed, raised) ==
    [o EXCEPT !.attrs = set @@ @, !.printed = @ \o printed, !.exc = raised,
              !.last = fn, !.calls = @ + 1]

MayCallMethod == obj.cls = "Interferometer" /\ obj.calls < MaxMethodCalls

\* set_timeseries_from_channel_name and set_timeseries_from_timeseries_array
SetTimeseries ==
    /\ MayCallMethod
    /\ \E segment_duration \in 1..MaxSegmentDuration, new_sample_rate \in 1..MaxRate :
          obj' = AfterMethod(obj, [fn |-> "set_timeseries"],
                             ("duration" :> segment_duration)
                                 @@ ("timeseries" :> [sample_rate |-> new_sample_rate]),
                             <<>>, NoError)
    /\ UNCHANGED <<args, ifos, self, pc, exc, C, y, data, ndraws, call, main>>

\* set_timeseries_from_gwpy_timeseries: segment_duration is not a name of
\* its scope
SetTimeseriesFromGwpy ==
    /\ MayCallMethod
    /\ obj' = AfterMethod(obj, [fn |-> "set_timeseries_from_gwpy_timeseries"], <<>>, <<>>,
                          Error("NameError", "name 'segment_duration' is not defined"))
    /\ UNCHANGED <<args, ifos, self, pc, exc, C, y, data, ndraws, call, main>>

\* the spectrogram power_spectral_density returns, with the frequency
\* resolution df it turns out to have
power_spectral_density(timeseries, duration, df) ==
    [of |-> timeseries, duration |-> duration, df |-> df]

\* set_psd_spectrogram(frequency_resolution): the attribute is assigned
\* before the three checks run
SetPsdSpectrogram ==
    /\ MayCallMethod
    /\ \E frequency_resolution \in 1..MaxResolution, df \in 1..MaxResolution :
          obj' = IF ~Has(obj, "timeseries")
                 THEN AfterMethod(obj, [fn |-> "set_psd_spectrogram"], <<>>, <<>>,
                                  Error("AttributeError", "no attribute 'timeseries'"))
                 ELSE AfterMethod(obj, [fn |-> "set_psd_spectrogram"],
                                  "psd_spectrogram" :>
                                      power_spectral_density(obj.attrs["timeseries"],
                                                             obj.attrs["duration"], df),
                                  <<>>,
                                  IF df = frequency_resolution THEN NoError
                                  ELSE Error("AssertionError",
                                             "Frequency resolution in psd_spectrogram does not match"))
    /\ UNCHANGED <<args, ifos, self, pc, exc, C, y, data, ndraws, call, main>>

before_after_average(psd_spectrogram, duration, N) ==
    [average_of |-> psd_spectrogram, duration |-> duration, N |-> N]

PSDsNotCalculated == Message("PSDs have not been calculated yet! Need to set_psd_spectrogram first.")

\* set_average_psd that lets the AttributeError out
set_average_psdMutant(o, N) ==
    IF Has(o, "psd_spectrogram")
    THEN AfterMethod(o, [fn |-> "set_average_psd", N |-> N],
                     "average_psd" :> before_after_average(o.attrs["psd_spectrogram"],
                                                           o.attrs["duration"], N),
                     <<>>, NoError)
    ELSE AfterMethod(o, [fn |-> "set_average_psd", N |-> N], <<>>, <<>>,
                     Error("AttributeError", "no attribute 'psd_spectrogram'"))

\* set_average_psd(N_average_segments_welch_psd)
set_average_psd(o, N) ==
    IF Has(o, "psd_spectrogram")
    THEN AfterMethod(o, [fn |-> "set_average_psd", N |-> N],
                     "average_psd" :> before_after_average(o.attrs["psd_spectrogram"],
                                                           o.attrs["duration"], N),
                     <<>>, NoError)
    ELSE AfterMethod(o, [fn |-> "set_average_psd", N |-> N], <<>>, <<PSDsNotCalculated>>,
                     NoError)

SetAveragePsd ==
    /\ MayCallMethod
    /\ \E N \in {2 * k : k \in 1..MaxAverage} : obj' = set_average_psd(obj, N)
    /\ UNCHANGED <<args, ifos, self, pc, exc, C, y, data, ndraws, call, main>>

InitDetector ==
    /\ args = NoArgs
    /\ ifos = <<>>
    /\ self = NoFields
    /\ pc = "new"
    /\ exc = ""
    /\ C = <<>>
    /\ y = <<>>
    /\ data = <<>>
    /\ ndraws = 0
    /\ call = NoCall
    /\ main = NotRun
    /\ obj \in {[cls |-> "pending", file |-> f] : f \in DetectorFiles}

NextDetector ==
    \/ GetEmptyInterferometer
    \/ SetTimeseries
    \/ SetTimeseriesFromGwpy
    \/ SetPsdSpectrogram
    \/ SetAveragePsd

SpecDetector == InitDetector /\ [][NextDetector]_vars

\* C23: an invalid shape in the detector file reaches the caller of
\* get_empty_interferometer as an IOError, and the ValueError "Interferometer
\* <name> not implemented" is raised only when the file cannot be opened.
C23_InvalidShapeRaisesIOError ==
    obj.cls = "failed" =>
        /\ Lower(obj.file.shape) \notin {"", "l", "ligo", "triangular", "triangle"}
              => obj.exc.type = "IOError"
        /\ obj.exc = Error("ValueError", "Interferometer not implemented")
              => ~obj.file.exists

AveragePsdCalled == obj.cls = "Interferometer" /\ obj.last.fn = "set_average_psd"

\* C25: set_average_psd never raises.  Called on an interferometer that has
\* no psd_spectrogram it prints that the PSDs have not been calculated yet
\* and leaves average_psd unset; called on one that has a psd_spectrogram
\* it sets average_psd to the average of that spectrogram.  average_psd
\* exists only on an interferometer that has a psd_spectrogram.
C25_AveragePsdNeedsSpectrogram ==
    /\ AveragePsdCalled =>
          /\ obj.exc = NoError
          /\ IF Has(obj, "psd_spectrogram")
             THEN /\ Has(obj, "average_psd")
                  /\ obj.attrs["average_psd"]
                        = before_after_average(obj.attrs["psd_spectrogram"],
                                               obj.attrs["duration"], obj.last.N)
             ELSE /\ ~Has(obj, "average_psd")
                  /\ Len(obj.printed) >= 1
                  /\ obj.printed[Len(obj.printed)] = PSDsNotCalculated
    /\ (obj.cls = "Interferometer" /\ Has(obj, "average_psd")) => Has(obj, "psd_spectrogram")

\* set_average_psd was called too early, printed, and was called again after
\* set_psd_spectrogram had returned
C25_Witness ==
    /\ AveragePsdCalled
    /\ Has(obj, "average_psd")
    /\ obj.printed = <<PSDsNotCalculated>>
    /\ obj.calls = 4

(***************************************************************************)
(* workflow.py: config_override.  A string is the sequence of its pieces,  *)
(* each piece a colon ":" or a non-empty run of other characters; the      *)
(* config is a configparser.ConfigParser: the options of its DEFAULT       *)
(* section and, for each other section, the options of that section.       *)
(***************************************************************************)
MaxFields == 4
MaxOverrides == 2

Colon == ":"

RECURSIVE Split(_)
\* str.split(':')
Split(s) ==
    IF \A i \in 1..Len(s) : s[i] # Colon THEN <<s>>
    ELSE LET i == CHOOSE i \in 1..Len(s) : s[i] = Colon /\ \A j \in 1..(i - 1) : s[j] # Colon
         IN <<SubSeq(s, 1, i - 1)>> \o Split(SubSeq(s, i + 1, Len(s)))

RECURSIVE Join(_)
\* ':'.join(fields)
Join(fields) ==
    IF fields = <<>> THEN <<>>
    ELSE IF Len(fields) = 1 THEN fields[1]
    ELSE fields[1] \o <<Colon>> \o Join(Tail(fields))

DefaultSection == <<"DEFAULT">>

\* ConfigParser.optionxform: option names are lower-cased
optionxform(key) == [i \in 1..Len(key) |-> IF key[i] = "K" THEN "k" ELSE key[i]]

\* config[section] = {}
SetSection(config, section) ==
    IF section = DefaultSection THEN [config EXCEPT !.defaults = <<>>]
    ELSE [config EXCEPT !.sections = (section :> <<>>) @@ @]

\* config[section][key] = value
SetOption(config, section, key, value) ==
    IF section = DefaultSection
    THEN [config EXCEPT !.defaults = (optionxform(key) :> value) @@ @]
    ELSE [config EXCEPT !.sections[section] = (optionxform(key) :> value) @@ @]

RECURSIVE config_override_from(_, _, _)
\* the for loop of config_override from its i-th override on
config_override_from(config, overrides, i) ==
    IF i > Len(overrides) THEN [config |-> config, exc |-> NoError]
    ELSE IF Len(Split(overrides[i])) < 2
    THEN [config |-> config,
          exc |-> Error("ValueError", "Overrides must be in the form 'section:key:value'")]
    ELSE config_override_from(
             SetOption(IF Split(overrides[i])[1] \notin DOMAIN config.sections
                       THEN SetSection(config, Split(overrides[i])[1])
                       ELSE config,
                       Split(overrides[i])[1], Split(overrides[i])[2],
                       Join(SubSeq(Split(overrides[i]), 3, Len(Split(overrides[i]))))),
             overrides, i + 1)

config_override(config, overrides) == config_override_from(config, overrides, 1)

SectionNames == {<<"a">>, DefaultSection}

KeyNames == {<<"k">>, <<"K">>}

\* the colon-separated fields of the override strings
OverrideFields ==
    {<<s>> : s \in SectionNames}
        \cup {<<s, k>> : s \in SectionNames, k \in KeyNames}
        \cup UNION {{<<s, k>> \o [i \in 1..n |-> <<"v">>] : s \in SectionNames, k \in KeyNames}
                       : n \in 1..(MaxFields - 2)}

OverrideStrings == {Join(fields) : fields \in OverrideFields}

OverrideLists == UNION {[1..n -> OverrideStrings] : n \in 0..MaxOverrides}

Configs ==
    {[defaults |-> <<>>, sections |-> <<>>],
     [defaults |-> (<<"d">> :> <<"1">>), sections |-> (<<"a">> :> (<<"k">> :> <<"0">>))]}

ConfigOverride ==
    /\ obj.cls = "config" /\ obj.at = "pending"
    /\ obj' = [cls |-> "config", at |-> "returned", before |-> obj.config,
               overrides |-> obj.overrides,
               config |-> config_override(obj.config, obj.overrides).config,
               exc |-> config_override(obj.config, obj.overrides).exc]
    /\ UNCHANGED <<args, ifos, self, pc, exc, C, y, data, ndraws, call, main>>

InitWorkflow ==
    /\ args = NoArgs
    /\ ifos = <<>>
    /\ self = NoFields
    /\ pc = "new"
    /\ exc = ""
    /\ C = <<>>
    /\ y = <<>>
    /\ data = <<>>
    /\ ndraws = 0
    /\ call = NoCall
    /\ main = NotRun
    /\ obj \in {[cls |-> "config", at |-> "pending", config |-> c, overrides |-> o]
                   : c \in Configs, o \in OverrideLists}

NextWorkflow == ConfigOverride

SpecWorkflow == InitWorkflow /\ [][NextWorkflow]_vars

\* the config the override string ov is to give: a ValueError and the config
\* as it was when ov has fewer than three fields, else config[section][key]
\* set to the value and nothing else changed
OverrideExpected(config, ov) ==
    IF Len(Split(ov)) < 3
    THEN [config |-> config,
          exc |-> Error("ValueError", "Overrides must be in the form 'section:key:value'")]
    ELSE [config |->
              IF Split(ov)[1] = DefaultSection
              THEN [config EXCEPT !.defaults = (optionxform(Split(ov)[2])
                                                   :> Join(SubSeq(Split(ov), 3, Len(Split(ov))))) @@ @]
              ELSE [config EXCEPT !.sections =
                        (Split(ov)[1] :>
                            ((optionxform(Split(ov)[2])
                                 :> Join(SubSeq(Split(ov), 3, Len(Split(ov)))))
                             @@ (IF Split(ov)[1] \in DOMAIN config.sections
                                 THEN config.sections[Split(ov)[1]] ELSE <<>>))) @@ @],
          exc |-> NoError]

RECURSIVE OverridesExpected(_, _, _)
OverridesExpected(config, overrides, i) ==
    IF i > Len(overrides) THEN [config |-> config, exc |-> NoError]
    ELSE IF OverrideExpected(config, overrides[i]).exc # NoError
    THEN OverrideExpected(config, overrides[i])
    ELSE OverridesExpected(OverrideExpected(config, overrides[i]).config, overrides, i + 1)

\* C24: config_override raises ValueError for every override with fewer than
\* three colon-separated fields and leaves the config as it was before that
\* override; a well-formed override sets config[section][key] to the value
\* with its colons, creates the section if it is absent and changes no other
\* key.
C24_OverrideNeedsThreeFields ==
    (obj.cls = "config" /\ obj.at = "returned") =>
        /\ obj.exc = OverridesExpected(obj.before, obj.overrides, 1).exc
        /\ obj.config = OverridesExpected(obj.before, obj.overrides, 1).config

(***************************************************************************)
(* parameters.py: the dataclass Parameters.  A Python value is its type    *)
(* and the text str() gives for it.  The model keeps one or two fields of  *)
(* each annotated type, in the order of the class body; the loops of the   *)
(* class treat the other fields of those types the same way.               *)
(***************************************************************************)
MaxKwargs == 1
MaxParametersCalls == 2

Py(t, r) == [t |-> t, r |-> r]

Annotations ==
    <<[name |-> "segment_duration", dtype |-> "int"],
      [name |-> "frequency_resolution", dtype |-> "float"],
      [name |-> "coarse_grain", dtype |-> "int"],
      [name |-> "interferometer_list", dtype |-> "List"],
      [name |-> "local_data_path_dict", dtype |-> "dict"],
      [name |-> "N_average_segments_welch_psd", dtype |-> "int"],
      [name |-> "window_fftgram", dtype |-> "str"],
      [name |-> "zeropad_csd", dtype |-> "bool"],
      [name |-> "alphas_delta_sigma_cut", dtype |-> "List"]>>

FieldNames == {Annotations[i].name : i \in 1..Len(Annotations)}

DtypeOf(name) == Annotations[CHOOSE i \in 1..Len(Annotations) : Annotations[i].name = name].dtype

\* the texts int() accepts, among those the model uses, and their values
IntTexts == {"0", "1", "2", "4", "192"}

ParseInt(r) ==
    CASE r = "0" -> 0 [] r = "1" -> 1 [] r = "2" -> 2 [] r = "4" -> 4 [] r = "192" -> 192

\* the texts with a decimal point float() accepts, and their values
FloatTexts == {"0.03125", "0.5"}

ParseFloat(r) == CASE r = "0.03125" -> <<1, 32>> [] r = "0.5" -> <<1, 2>>

Returns(value) == [exc |-> "", value |-> value]

Raises(type, value) == [exc |-> type, value |-> value]

\* bool(v)
Truthy(v) ==
    CASE v.t = "bool" -> v.r = "True"
      [] v.t = "int" -> v.r # "0"
      [] v.t = "float" -> v.r # "0.0"
      [] v.t = "str" -> v.r # ""
      [] v.t = "list" -> v.r # "[]"
      [] v.t = "dict" -> v.r # "{}"

\* dtype(v) for the annotation dtype; int() is never given a float here
Convert(dtype, v) ==
    CASE dtype = "int" ->
             IF v.t = "int" THEN Returns(v)
             ELSE IF v.t = "bool" THEN Returns(Py("int", IF Truthy(v) THEN "1" ELSE "0"))
             ELSE IF v.t = "str"
             THEN IF v.r \in IntTexts THEN Returns(Py("int", v.r)) ELSE Raises("ValueError", v)
             ELSE Raises("TypeError", v)
      [] dtype = "float" ->
             IF v.t = "float" THEN Returns(v)
             ELSE IF v.t = "int" THEN Returns(Py("float", v.r \o ".0"))
             ELSE IF v.t = "bool" THEN Returns(Py("float", IF Truthy(v) THEN "1.0" ELSE "0.0"))
             ELSE IF v.t = "str"
             THEN IF v.r \in FloatTexts THEN Returns(Py("float", v.r))
                  ELSE IF v.r \in IntTexts THEN Returns(Py("float", v.r \o ".0"))
                  ELSE Raises("ValueError", v)
             ELSE Raises("TypeError", v)
      [] dtype = "str" -> Returns(Py("str", v.r))
      [] dtype = "bool" -> Returns(Py("bool", IF Truthy(v) THEN "True" ELSE "False"))
      [] dtype = "List" -> Raises("TypeError", v)
      [] dtype = "dict" ->
             IF v.t = "dict" THEN Returns(v)
             ELSE IF v.t \in {"str", "list"}
             THEN IF Truthy(v) THEN Raises(IF v.t = "str" THEN "ValueError" ELSE "TypeError", v)
                  ELSE Returns(Py("dict", "{}"))
             ELSE Raises("TypeError", v)

\* json.loads(v): the list a JSON text stands for, with the text str()
\* gives for that list
json_loads(v) ==
    IF v.t # "str" THEN Raises("TypeError", v)
    ELSE CASE v.r = "[1]" -> Returns(Py("list", "[1]"))
           [] v.r = "[-5, 0, 3]" -> Returns(Py("list", "[-5, 0, 3]"))
           [] v.r = "[\"H1\"]" -> Returns(Py("list", "['H1']"))
           [] v.r = "[\"H1\", \"L1\"]" -> Returns(Py("list", "['H1', 'L1']"))
           [] OTHER -> Raises("JSONDecodeError", v)

\* the fields the dataclass sets before __post_init__ runs
DefaultFields ==
    [segment_duration |-> Py("int", "192"),
     frequency_resolution |-> Py("float", "0.03125"),
     coarse_grain |-> Py("int", "0"),
     interferometer_list |-> Py("list", "['H1', 'L1']"),
     local_data_path_dict |-> Py("dict", "{}"),
     N_average_segments_welch_psd |-> Py("int", "2"),
     window_fftgram |-> Py("str", "hann"),
     zeropad_csd |-> Py("bool", "True"),
     alphas_delta_sigma_cut |-> Py("list", "[-5, 0, 3]")]

overlap_of(fields) == R(ParseInt(fields.segment_duration.r), 2)

fft_length_of(fields) ==
    IF Truthy(fields.coarse_grain) THEN ParseInt(fields.segment_duration.r)
    ELSE ParseFloat(fields.frequency_resolution.r)[2]
             \div ParseFloat(fields.frequency_resolution.r)[1]

\* Parameters(**kw): the generated __init__, then __post_init__
NewFields(kw) ==
    (("overlap" :> overlap_of(kw @@ DefaultFields))
        @@ ("fft_length" :> fft_length_of(kw @@ DefaultFields)))
        @@ kw @@ DefaultFields

RECURSIVE update_fields(_, _, _)
\* the loop of update_from_dictionary from the i-th annotation on
update_fields(fields, kwargs, i) ==
    IF i > Len(Annotations) THEN [fields |-> fields, exc |-> ""]
    ELSE IF Annotations[i].name \notin DOMAIN kwargs THEN update_fields(fields, kwargs, i + 1)
    ELSE IF Convert(Annotations[i].dtype, kwargs[Annotations[i].name]).exc \notin {"", "TypeError"}
    THEN [fields |-> fields,
          exc |-> Convert(Annotations[i].dtype, kwargs[Annotations[i].name]).exc]
    ELSE update_fields(
             [fields EXCEPT ![Annotations[i].name] =
                 Convert(Annotations[i].dtype, kwargs[Annotations[i].name]).value],
             kwargs, i + 1)

\* the two json.loads lines that end update_from_dictionary
loads_lists(fields) ==
    IF json_loads(fields.alphas_delta_sigma_cut).exc # ""
    THEN [fields |-> fields, exc |-> json_loads(fields.alphas_delta_sigma_cut).exc]
    ELSE IF json_loads(fields.interferometer_list).exc # ""
    THEN [fields |-> [fields EXCEPT !.alphas_delta_sigma_cut = json_loads(@).value],
          exc |-> json_loads(fields.interferometer_list).exc]
    ELSE [fields |-> [fields EXCEPT !.alphas_delta_sigma_cut = json_loads(@).value,
                                    !.interferometer_list = json_loads(@).value],
          exc |-> ""]

update_from_dictionary(fields, kwargs) ==
    IF update_fields(fields, kwargs, 1).exc # "" THEN update_fields(fields, kwargs, 1)
    ELSE loads_lists(update_fields(fields, kwargs, 1).fields)

\* ConfigParser.optionxform on the field names
LowerName(name) ==
    IF name = "N_average_segments_welch_psd" THEN "n_average_segments_welch_psd" ELSE name

\* the file save_paramfile writes: one section, str() of every field
save_paramfile(fields) ==
    "parameters" :>
        [key \in {LowerName(name) : name \in FieldNames} |->
            fields[CHOOSE name \in FieldNames : LowerName(name) = key].r]

\* no file at the path: ConfigParser.read skips it
NoFile == <<>>

\* update_from_file(path) where path holds file
update_from_file(fields, file) ==
    IF "parameters" \notin DOMAIN file \/ "local_data" \notin DOMAIN file
    THEN [fields |-> fields, exc |-> "NoSectionError"]
    ELSE update_from_dictionary(
             fields,
             [key \in DOMAIN file["parameters"] \cup DOMAIN file["local_data"] |->
                 Py("str", (file["local_data"] @@ file["parameters"])[key])])

\* update_from_arguments(args), args giving the options of DOMAIN options
\* with their texts; argparse exits on a value its type= rejects
update_from_arguments(fields, options) ==
    IF DOMAIN options = {} THEN [fields |-> fields, exc |-> ""]
    ELSE IF \E name \in DOMAIN options : Convert(DtypeOf(name), Py("str", options[name])).exc # ""
    THEN [fields |-> fields, exc |-> "SystemExit"]
    ELSE update_from_dictionary(
             fields,
             [name \in DOMAIN options |-> Convert(DtypeOf(name), Py("str", options[name])).value])

\* the values the calls pass for a field
KwargValues(name) ==
    CASE name = "segment_duration" -> {Py("str", "4")}
      [] name = "frequency_resolution" -> {Py("str", "0.5")}
      [] name = "coarse_grain" -> {Py("str", "1")}
      [] name = "interferometer_list" -> {Py("str", "[\"H1\"]")}
      [] name = "local_data_path_dict" -> {Py("dict", "{}"), Py("str", "{}")}
      [] name = "N_average_segments_welch_psd" -> {Py("str", "4")}
      [] name = "window_fftgram" -> {Py("str", "boxcar")}
      [] name = "zeropad_csd" -> {Py("str", "False"), Py("bool", "False")}
      [] name = "alphas_delta_sigma_cut" -> {Py("str", "[1]")}

Kwargs ==
    UNION {{kwargs \in [names -> UNION {KwargValues(name) : name \in names}] :
               \A name \in names : kwargs[name] \in KwargValues(name)}
              : names \in {S \in SUBSET FieldNames : Cardinality(S) <= MaxKwargs}}

\* command lines: every value is a text
Options ==
    {[name \in DOMAIN kwargs |-> kwargs[name].r] :
        kwargs \in {k \in Kwargs : \A name \in DOMAIN k : k[name].t = "str"}}

\* the keyword arguments of the constructor: values of the annotated types,
\* or the two lists given as JSON texts
ConstructorArgs ==
    {sd @@ cg @@ lists :
        sd \in {<<>>, "segment_duration" :> Py("int", "4")},
        cg \in {<<>>, "coarse_grain" :> Py("int", "1")},
        lists \in {<<>>, ("interferometer_list" :> Py("str", "[\"H1\", \"L1\"]"))
                             @@ ("alphas_delta_sigma_cut" :> Py("str", "[-5, 0, 3]"))}}

\* an ini file written by hand, with both sections update_from_file reads
HandWritten ==
    ("parameters" :> (("segment_duration" :> "4")
                         @@ ("alphas_delta_sigma_cut" :> "[1]")
                         @@ ("interferometer_list" :> "[\"H1\"]")))
        @@ ("local_data" :> <<>>)

NotLoaded == [exc |-> "none"]

NewParameters ==
    /\ obj.cls = "Parameters" /\ obj.at = "pending"
    /\ obj' = [cls |-> "Parameters", at |-> "made", fields |-> NewFields(obj.kw),
               file |-> obj.file, exc |-> "", last |-> [fn |-> "__init__"],
               before |-> NewFields(obj.kw), loaded |-> NotLoaded, calls |-> 0]
    /\ UNCHANGED <<args, ifos, self, pc, exc, C, y, data, ndraws, call, main>>

MayUpdate == obj.cls = "Parameters" /\ obj.at = "made" /\ obj.calls < MaxParametersCalls

\* obj after the call last has given result
AfterUpdate(o, last, result) ==
    [o EXCEPT !.fields = result.fields, !.exc = result.exc, !.last = last,
              !.before = o.fields, !.calls = @ + 1]

UpdateFromDictionary ==
    /\ MayUpdate
    /\ \E kwargs \in Kwargs :
          obj' = AfterUpdate(obj, [fn |-> "update_from_dictionary", kwargs |-> kwargs],
                             update_from_dictionary(obj.fields, kwargs))
    /\ UNCHANGED <<args, ifos, self, pc, exc, C, y, data, ndraws, call, main>>

UpdateFromFile ==
    /\ MayUpdate
    /\ obj' = AfterUpdate(obj, [fn |-> "update_from_file"], update_from_file(obj.fields, obj.file))
    /\ UNCHANGED <<args, ifos, self, pc, exc, C, y, data, ndraws, call, main>>

UpdateFromArguments ==
    /\ MayUpdate
    /\ \E options \in Options :
          obj' = AfterUpdate(obj, [fn |-> "update_from_arguments", options |-> options],
                             update_from_arguments(obj.fields, options))
    /\ UNCHANGED <<args, ifos, self, pc, exc, C, y, data, ndraws, call, main>>

SaveParamfile ==
    /\ MayUpdate
    /\ obj' = [obj EXCEPT !.file = save_paramfile(obj.fields), !.exc = "",
                          !.last = [fn |-> "save_paramfile"], !.loaded = NotLoaded,
                          !.calls = @ + 1]
    /\ UNCHANGED <<args, ifos, self, pc, exc, C, y, data, ndraws, call, main>>

\* Parameters().update_from_file(path) on a second, freshly constructed
\* object
LoadFresh ==
    /\ MayUpdate
    /\ obj' = [obj EXCEPT !.loaded = update_from_file(NewFields(<<>>), obj.file),
                          !.last = [fn |-> "Parameters().update_from_file"],
                          !.calls = @ + 1]
    /\ UNCHANGED <<args, ifos, self, pc, exc, C, y, data, ndraws, call, main>>

InitParameters ==
    /\ args = NoArgs
    /\ ifos = <<>>
    /\ self = NoFields
    /\ pc = "new"
    /\ exc = ""
    /\ C = <<>>
    /\ y = <<>>
    /\ data = <<>>
    /\ ndraws = 0
    /\ call = NoCall
    /\ main = NotRun
    /\ obj \in {[cls |-> "Parameters", at |-> "pending", kw |-> kw, file |-> file]
                   : kw \in ConstructorArgs, file \in {NoFile, HandWritten}}

NextParameters ==
    \/ NewParameters
    \/ UpdateFromDictionary
    \/ UpdateFromFile
    \/ UpdateFromArguments
    \/ SaveParamfile
    \/ LoadFresh

SpecParameters == InitParameters /\ [][NextParameters]_vars

ParametersMade == obj.cls = "Parameters" /\ obj.at = "made"

\* the value the field name is to have after an update that passes v for it
ExpectedValue(name, v) ==
    IF DtypeOf(name) = "List" THEN json_loads(v).value ELSE Convert(DtypeOf(name), v).value

\* after differs from before exactly in the fields kwargs names, which hold
\* the converted values
UpdatedAsNamed(before, after, kwargs) ==
    \A name \in FieldNames :
        after[name] = IF name \in DOMAIN kwargs THEN ExpectedValue(name, kwargs[name])
                      ELSE before[name]

\* C26: update_from_dictionary, and update_from_arguments with a non-empty
\* argument list, complete without error for every subset of the field
\* names, set exactly the named fields to the converted values, and give
\* the same state when repeated with the same arguments;
\* update_from_arguments with an empty argument list changes nothing.
C26_UpdateSetsExactlyNamedFields ==
    ParametersMade =>
        /\ obj.last.fn = "update_from_dictionary" =>
              /\ obj.exc = ""
              /\ UpdatedAsNamed(obj.before, obj.fields, obj.last.kwargs)
              /\ update_from_dictionary(obj.fields, obj.last.kwargs)
                    = [fields |-> obj.fields, exc |-> ""]
        /\ (obj.last.fn = "update_from_arguments" /\ DOMAIN obj.last.options # {}) =>
              /\ obj.exc = ""
              /\ UpdatedAsNamed(obj.before, obj.fields,
                                [name \in DOMAIN obj.last.options |->
                                    Py("str", obj.last.options[name])])
              /\ update_from_arguments(obj.fields, obj.last.options)
                    = [fields |-> obj.fields, exc |-> ""]
        /\ (obj.last.fn = "update_from_arguments" /\ DOMAIN obj.last.options = {}) =>
              obj.exc = "" /\ obj.fields = obj.before

\* C27: after construction and after every update that returns, overlap is
\* segment_duration / 2 and fft_length is segment_duration when coarse_grain
\* is set, else int(1 / frequency_resolution).
C27_DerivedFieldsAgree ==
    (ParametersMade /\ obj.exc = "") =>
        /\ obj.fields.overlap = overlap_of(obj.fields)
        /\ obj.fields.fft_length = fft_length_of(obj.fields)

\* C28: update_from_file on a fresh Parameters object, reading the file
\* save_paramfile has written for p, succeeds and gives every annotated
\* field the value it has in p.
C28_SaveThenLoadRoundTrip ==
    (ParametersMade /\ obj.last.fn = "Parameters().update_from_file"
        /\ obj.file = save_paramfile(obj.fields)) =>
        /\ obj.loaded.exc = ""
        /\ \A name \in FieldNames : obj.loaded.fields[name] = obj.fields[name]

====
